---- MODULE Spec2Model ----
(***************************************************************************)
(* Model of src/sdp.py, class SDP: node discovery and classification,      *)
(* randomized sampling of the PSD / NSD components, matching of sampled    *)
(* minima against the spectrahedral nodes, and ranking.                    *)
(*                                                                         *)
(* The pencil is a fixed diagonal one, so that matrix() and eigenvalues()  *)
(* are computed exactly over the integers; a matrix is represented by its  *)
(* diagonal.  The candidate and solver points are chosen so that no two    *)
(* non-zero diagonal entries of matrix(v) have the same absolute value     *)
(* (the SVD of such a matrix is unique up to the signs of the vectors).    *)
(* The SDP solver, the handler passed to get_nodes and the external        *)
(* program `singular` are inputs: their answers are drawn from small sets. *)
(***************************************************************************)
EXTENDS Integers, Sequences, FiniteSets, TLC

\* ---------------------------------------------------------------- bounds
MaxTrials == 2     \* cap on the trial counter
MaxN == MaxTrials  \* largest n passed to solve(n)
MaxNodes == 2      \* cap on len(spec_nodes) + len(sym_nodes)
MaxIssued == MaxTrials + 1   \* cap on the number of sub-problems handed to the solver

\* ------------------------------------------------------ the pencil (diag)
A == <<1, 0, 0, 0, 0>>
B == <<0, 1, 0, 0, 0>>
C == <<0, 0, 1, 0, 0>>
D == <<0, 0, 0, -1, 0>>
matrices == <<A, B, C, D>>
Dim == Len(D)

\* candidate points a handler may return, and points the solver may return
P_zero == <<4, 0, 0>>      \* eigenvalues  4, 1, 0, 0, 0
P_neg  == <<-4, -3, -2>>   \* eigenvalues -4,-3,-2,-1, 0
P_mix  == <<4, -3, 2>>     \* eigenvalues  4,-3, 2,-1, 0
P_four == <<4, 3, 2>>      \* eigenvalues  4, 3, 2,-1, 0
P_near == <<4, 0, 1>>      \* at distance 1 from P_zero
CandidatePoints == {P_zero, P_neg, P_mix, P_four}
SolverPoints == {P_zero, P_near}

\* solver statuses (cvx.SOLVED, cvx.INFEASIBLE, cvx.UNBOUNDED, anything else)
SOLVED == "solved"
INFEASIBLE == "infeasible"
UNBOUNDED == "unbounded"
UNKNOWN == "unknown"
Unbound == "unbound"       \* a local variable that was never assigned
Statuses == {SOLVED, INFEASIBLE, UNBOUNDED, UNKNOWN}

\* tolerances passed to process(), as <<numerator, denominator>>
DefaultTolerance == <<1, 1000>>
Tolerances == {DefaultTolerance, <<1, 4>>}

\* ------------------------------------------------------------- utilities
Abs(a) == IF a < 0 THEN -a ELSE a

RECURSIVE Gcd(_, _)
Gcd(a, b) == IF b = 0 THEN a ELSE Gcd(b, a % b)

\* true division of two integers, kept exact as a reduced fraction
TrueDiv(a, b) == <<a \div Gcd(a, b), b \div Gcd(a, b)>>
Zero == <<0, 1>>

\* p > q for two fractions with positive denominators
FracGreater(p, q) == p[1] * q[2] > q[1] * p[2]

\* matrix(vector): the diagonal of x*A + y*B + z*C + 1*D
matrix(vector) ==
    LET vec == Append(vector, 1)
    IN  [k \in 1..Dim |-> vec[1] * matrices[1][k] + vec[2] * matrices[2][k]
                          + vec[3] * matrices[3][k] + vec[4] * matrices[4][k]]

\* linalg.svd of a diagonal matrix m: singular values in descending order,
\* svd_order(m)[i] is the row/column the i-th singular value sits in, and
\* U[i,i] * Vt[i,i] is the sign of m[i] if the i-th singular vector is e_i,
\* and 0 otherwise.
svd_pos(m, k) ==
    1 + Cardinality({j \in 1..Dim : \/ Abs(m[j]) > Abs(m[k])
                                    \/ (Abs(m[j]) = Abs(m[k]) /\ j < k)})
svd_order(m) == [i \in 1..Dim |-> CHOOSE k \in 1..Dim : svd_pos(m, k) = i]
svd_diag_product(m, i) ==
    IF svd_order(m)[i] # i THEN 0
    ELSE IF m[i] < 0 THEN -1 ELSE IF m[i] > 0 THEN 1 ELSE 0

\* eigenvalues(vector): singular values, negated where U[i,i]*Vt[i,i] < 0
eigenvalues(vector) ==
    LET m == matrix(vector)
    IN  [i \in 1..Dim |->
            IF svd_diag_product(m, i) < 0
            THEN -Abs(m[svd_order(m)[i]])
            ELSE Abs(m[svd_order(m)[i]])]


\* ------------------------------------------------------------------ state
VARIABLES
    mins,                        \* self.mins: raw minima, a list of points
    pmins,                       \* self.pmins: list of <<point, occurrences, eigenvalues>>
    nodes,                       \* self.nodes: list of <<point, probability, eigenvalues>>
    spec_nodes,                  \* self.spec_nodes: list of <<point, eigenvalues>>
    sym_nodes,                   \* self.sym_nodes: list of <<point, eigenvalues>>
    trials,                      \* self.trials
    psd_spec,                    \* self.psd_spec
    nsd_spec,                    \* self.nsd_spec
    fully_bounded_directions,    \* self.fully_bounded_directions
    fully_unbounded_directions,  \* self.fully_unbounded_directions
    tmpfiles,                    \* names of the files present in SDP.tmpdir
    singular_out,                \* what `singular` computes for this pencil, parsed
    pc,                          \* "idle", or "solve" inside the loop of solve()
    n,                           \* solve(): the argument n
    i,                           \* solve(): number of loop iterations done
    psd_status,                  \* solve(): the local psd_status
    op,                          \* the last operation called
    raised,                      \* the exception that ended it, or "none"
    handler_failed,              \* the handler was called by it and raised
    returned,                    \* points returned by handlers to get_nodes so far
    issued,                      \* sub-problems handed to the solver so far
    psd_reissued,                \* a PSD sub-problem was issued after one reported infeasible
    nsd_reissued,                \* an NSD sub-problem was issued after one reported infeasible
    psd_infeasible_seen,         \* a PSD sub-problem has reported infeasible
    nsd_infeasible_seen,         \* an NSD sub-problem has reported infeasible
    consecutive_ranks            \* completed gen_nodes calls in a row up to now (0, 1, 2 = two or more)

fields == <<mins, pmins, nodes, spec_nodes, sym_nodes, trials, psd_spec, nsd_spec,
            fully_bounded_directions, fully_unbounded_directions>>
locals == <<pc, n, i, psd_status>>
observed == <<op, raised, handler_failed, returned, issued, psd_reissued, nsd_reissued,
              psd_infeasible_seen, nsd_infeasible_seen, consecutive_ranks>>
vars == <<fields, tmpfiles, singular_out, locals, observed>>

\* lists a handler passed to get_nodes may return
HandlerOutputs == {<<>>, <<P_mix>>, <<P_four>>}

\* a call of a handler passed to get_nodes: it raises, or returns a list
HandlerCalls ==
    {[ok |-> FALSE, pts |-> <<>>, files |-> tmpfiles]}
    \cup {[ok |-> TRUE, pts |-> s, files |-> tmpfiles] : s \in HandlerOutputs}

\* how one run of the default handler goes: all of it succeeds, or
\* subprocess.check_output raises, or parse_singular_output raises
ExternalRuns == {"ok", "invoke_error", "parse_error"}
TmpNames == {"t0"}

\* get_nodes_from_singular(): stage the script in tmpdir/<name>, run singular
\* on it, remove the file, parse the output
get_nodes_from_singular(run, name) ==
    [ok    |-> run = "ok",
     pts   |-> IF run = "ok" THEN singular_out ELSE <<>>,
     files |-> IF run = "invoke_error"
               THEN tmpfiles \cup {name}
               ELSE tmpfiles \ {name}]
DefaultHandlerCalls ==
    {get_nodes_from_singular(run, name) : run \in ExternalRuns, name \in TmpNames}
\* the calls an operation makes that calls the default handler, or does not
CallsIf(calls) ==
    IF calls THEN DefaultHandlerCalls
    ELSE {[ok |-> TRUE, pts |-> <<>>, files |-> tmpfiles]}

\* the object's fields as one value
self == [mins |-> mins, pmins |-> pmins, nodes |-> nodes,
         spec_nodes |-> spec_nodes, sym_nodes |-> sym_nodes, trials |-> trials]

\* the condition of line 193-194 on the eigenvalues e
IsSpectrahedral_strict(e) ==
    \/ (e[1] > 0 /\ e[2] > 0 /\ e[3] > 0)
    \/ (e[1] < 0 /\ e[2] < 0 /\ e[3] < 0)
IsSpectrahedral(e) ==
    \/ (e[1] >= 0 /\ e[2] >= 0 /\ e[3] >= 0)
    \/ (e[1] <= 0 /\ e[2] <= 0 /\ e[3] <= 0)

\* the loop of get_nodes over the list the handler returned
RECURSIVE classify(_, _)
classify(s, pts) ==
    IF pts = <<>> THEN s
    ELSE LET vector == Head(pts)
             e == eigenvalues(vector)
         IN  classify(IF IsSpectrahedral(e)
                      THEN [s EXCEPT !.spec_nodes = Append(@, <<vector, e>>)]
                      ELSE [s EXCEPT !.sym_nodes = Append(@, <<vector, e>>)],
                      Tail(pts))

\* does the call h of the handler end get_nodes with an exception
HandlerRaises_swallowed(h) == FALSE
HandlerRaises(h) == ~h.ok

\* get_nodes(handler): the result is <<exception or "none", self afterwards>>
get_nodes(s, h) ==
    IF HandlerRaises(h) THEN <<"HandlerError", s>>
    ELSE <<"none", classify(s, h.pts)>>

\* squared Euclidean norm and distance
Norm2(p) == p[1] * p[1] + p[2] * p[2] + p[3] * p[3]
Dist2(p, q) == Norm2(<<p[1] - q[1], p[2] - q[2], p[3] - q[3]>>)

RECURSIVE MaxNorm2(_)
MaxNorm2(pm) ==
    IF pm = <<>> THEN 0
    ELSE LET rest == MaxNorm2(Tail(pm))
             here == Norm2(Head(pm)[1])
         IN  IF here > rest THEN here ELSE rest

\* delta <= maxdelta, where maxdelta = tolerance * sqrt(maxnorm2)
WithinDelta_strict(x, y, tolerance, maxnorm2) ==
    Dist2(x, y) * tolerance[2] * tolerance[2]
        < tolerance[1] * tolerance[1] * maxnorm2
WithinDelta(x, y, tolerance, maxnorm2) ==
    Dist2(x, y) * tolerance[2] * tolerance[2]
        <= tolerance[1] * tolerance[1] * maxnorm2

\* the inner loop of process: y[1] after going through the minima m
RECURSIVE count_matches(_, _, _, _)
count_matches(y, m, tolerance, maxnorm2) ==
    IF m = <<>> THEN y[2]
    ELSE count_matches(
            IF WithinDelta(Head(m), y[1], tolerance, maxnorm2)
            THEN <<y[1], y[2] + 1, y[3]>> ELSE y,
            Tail(m), tolerance, maxnorm2)

\* self.mins at the end of process
MinsAfterProcess_kept(m) == m
MinsAfterProcess(m) == <<>>

\* does process run the discovery and build pmins
NoNodesKnown(s) == s.spec_nodes = <<>> /\ s.sym_nodes = <<>>

\* process, line 209-210: pmins built from the spectrahedral nodes
build_pmins(s) ==
    [s EXCEPT !.pmins = [k \in 1..Len(s.spec_nodes) |->
                            <<s.spec_nodes[k][1], 0, s.spec_nodes[k][2]>>]]

\* process, line 211-218: the minima matched against every entry of pmins
match_mins(s, tolerance) ==
    [s EXCEPT !.pmins = [k \in 1..Len(s.pmins) |->
        <<s.pmins[k][1],
          count_matches(s.pmins[k], s.mins, tolerance, MaxNorm2(s.pmins)),
          s.pmins[k][3]>>]]

\* process, line 211-220
match_and_clear_inside(s, tolerance) ==
    IF s.pmins = <<>> THEN s
    ELSE [match_mins(s, tolerance) EXCEPT !.mins = <<>>]
match_and_clear(s, tolerance) ==
    [match_mins(s, tolerance) EXCEPT !.mins = MinsAfterProcess(@)]

\* process, after its call g of get_nodes
process_discovered(g, tolerance) ==
    IF g[1] # "none" THEN g
    ELSE <<"none", match_and_clear(build_pmins(g[2]), tolerance)>>

\* process(tolerance): <<exception or "none", self afterwards>>
process_rebuilding(s, tolerance, h) ==
    IF NoNodesKnown(s)
    THEN process_discovered(get_nodes(s, h), tolerance)
    ELSE <<"none", match_and_clear(build_pmins(s), tolerance)>>
process(s, tolerance, h) ==
    IF NoNodesKnown(s)
    THEN process_discovered(get_nodes(s, h), tolerance)
    ELSE <<"none", match_and_clear(s, tolerance)>>

\* list.sort(key=lambda x: x[1], reverse=True): stable, descending
RECURSIVE insert_desc_unstable(_, _)
insert_desc_unstable(sorted, x) ==
    IF sorted = <<>> THEN <<x>>
    ELSE IF ~FracGreater(Head(sorted)[2], x[2])
         THEN <<x>> \o sorted
         ELSE <<Head(sorted)>> \o insert_desc_unstable(Tail(sorted), x)
RECURSIVE insert_desc(_, _)
insert_desc(sorted, x) ==
    IF sorted = <<>> THEN <<x>>
    ELSE IF FracGreater(x[2], Head(sorted)[2])
         THEN <<x>> \o sorted
         ELSE <<Head(sorted)>> \o insert_desc(Tail(sorted), x)
RECURSIVE sort_desc(_)
sort_desc(l) ==
    IF l = <<>> THEN <<>>
    ELSE insert_desc(sort_desc(SubSeq(l, 1, Len(l) - 1)), l[Len(l)])

\* `self.trials is not 0`
TrialsIsNotZero_always(t) == TRUE
TrialsIsNotZero(t) == t # 0

\* does gen_nodes call process first
NeedsProcess(s) == s.mins # <<>> \/ s.sym_nodes = <<>>

\* gen_nodes, line 234-241: self.nodes computed from pmins and trials
rank_nodes(s) ==
    IF TrialsIsNotZero(s.trials)
    THEN IF s.trials = 0 /\ s.pmins # <<>>
         THEN <<"ZeroDivisionError", [s EXCEPT !.nodes = <<>>]>>
         ELSE <<"none", [s EXCEPT !.nodes =
                    sort_desc([k \in 1..Len(s.pmins) |->
                        <<s.pmins[k][1], TrueDiv(s.pmins[k][2], s.trials),
                          s.pmins[k][3]>>])]>>
    ELSE <<"none", [s EXCEPT !.nodes =
               [k \in 1..Len(s.pmins) |-> <<s.pmins[k][1], Zero, s.pmins[k][3]>>]]>>

\* gen_nodes, after its call p of process
rank_processed(p) == IF p[1] # "none" THEN p ELSE rank_nodes(p[2])

\* gen_nodes(): <<exception or "none", self afterwards>>
gen_nodes(s, h) ==
    IF NeedsProcess(s)
    THEN rank_processed(process(s, DefaultTolerance, h))
    ELSE rank_nodes(s)

\* print_results(): gen_nodes() if self.nodes is empty, then the printing
print_results(s, h) ==
    IF s.nodes = <<>> THEN gen_nodes(s, h) ELSE <<"none", s>>


\* --------------------------------------------------------------- solve(n)
\* what one solver call reports: a status, and the optimum if it solved
Outcomes ==
    {[status |-> SOLVED, value |-> p] : p \in SolverPoints}
    \cup {[status |-> st, value |-> <<>>] : st \in Statuses \ {SOLVED}}

\* `if self.psd_spec:` and `if self.nsd_spec:`
IssuePsd_always(spec) == TRUE
IssuePsd(spec) == spec
IssueNsd(spec) == spec

\* the answers to a sub-problem that is issued, or is not
NotIssued == [status |-> "not_issued", value |-> <<>>]
OutcomesIf(issue) == IF issue THEN Outcomes ELSE {NotIssued}

\* the latch after a sub-problem: cleared when it was issued and infeasible
SpecAfter_reassigned(spec, was_issued, status) == status # INFEASIBLE
SpecAfter(spec, was_issued, status) ==
    IF was_issued /\ status = INFEASIBLE THEN FALSE ELSE spec

\* the NSD branch reads the local psd_status when the NSD status is SOLVED,
\* or is UNBOUNDED (the right operand of `and`)
NsdBranchReadsPsdStatus(status) == status \in {SOLVED, UNBOUNDED}

\* line 170-172: the NSD sub-problem solved, `if psd_status == cvx.SOLVED`
BothSolved_nsd_only(nsd_status, status1) == nsd_status = SOLVED
BothSolved(nsd_status, status1) == nsd_status = SOLVED /\ status1 = SOLVED

\* line 174-175: `nsd_status == cvx.UNBOUNDED and psd_status == cvx.UNBOUNDED`
BothUnbounded_either(nsd_status, status1) ==
    nsd_status = UNBOUNDED \/ status1 = UNBOUNDED
BothUnbounded(nsd_status, status1) ==
    nsd_status = UNBOUNDED /\ status1 = UNBOUNDED

\* solve(n): entry
BeginSolve(k) ==
    /\ pc = "idle"
    /\ pc' = "solve"
    /\ n' = k
    /\ i' = 0
    /\ psd_status' = Unbound
    /\ op' = "solve"
    /\ raised' = "none"
    /\ handler_failed' = FALSE
    /\ consecutive_ranks' = 0
    /\ UNCHANGED <<fields, tmpfiles, singular_out, returned, issued, psd_reissued,
                   nsd_reissued, psd_infeasible_seen, nsd_infeasible_seen>>

\* solve(n): entry, while the trials are within MaxTrials and the sub-problems
\* it can issue are within MaxIssued
StartSolve(k) ==
    /\ trials + k <= MaxTrials
    /\ issued + k * ((IF psd_spec THEN 1 ELSE 0) + (IF nsd_spec THEN 1 ELSE 0)) <= MaxIssued
    /\ BeginSolve(k)

\* solve(n): one iteration of the loop, the solver answering ps and ns
SolveTrial(ps, ns) ==
    LET issue_psd == IssuePsd(psd_spec)
        issue_nsd == IssueNsd(nsd_spec)
        status1 == IF issue_psd THEN ps.status ELSE psd_status
        mins1 == IF issue_psd /\ ps.status = SOLVED
                 THEN Append(mins, ps.value) ELSE mins
        mins2 == IF issue_nsd /\ ns.status = SOLVED
                 THEN Append(mins1, ns.value) ELSE mins1
        unbound == /\ issue_nsd
                   /\ NsdBranchReadsPsdStatus(ns.status)
                   /\ status1 = Unbound
    IN  /\ pc = "solve"
        /\ i < n
        /\ mins' = mins2
        /\ psd_spec' = SpecAfter(psd_spec, issue_psd, ps.status)
        /\ nsd_spec' = SpecAfter(nsd_spec, issue_nsd /\ ~unbound, ns.status)
        /\ fully_bounded_directions' =
              IF issue_nsd /\ ~unbound /\ BothSolved(ns.status, status1)
              THEN fully_bounded_directions + 1 ELSE fully_bounded_directions
        /\ fully_unbounded_directions' =
              IF issue_nsd /\ ~unbound /\ BothUnbounded(ns.status, status1)
              THEN fully_unbounded_directions + 1 ELSE fully_unbounded_directions
        /\ issued' = issued + (IF issue_psd THEN 1 ELSE 0) + (IF issue_nsd THEN 1 ELSE 0)
        /\ psd_reissued' = (psd_reissued \/ (issue_psd /\ psd_infeasible_seen))
        /\ nsd_reissued' = (nsd_reissued \/ (issue_nsd /\ nsd_infeasible_seen))
        /\ psd_infeasible_seen' =
              (psd_infeasible_seen \/ (issue_psd /\ ps.status = INFEASIBLE))
        /\ nsd_infeasible_seen' =
              (nsd_infeasible_seen \/ (issue_nsd /\ ns.status = INFEASIBLE))
        /\ IF unbound
           THEN /\ pc' = "idle"
                /\ raised' = "UnboundLocalError"
                /\ n' = 0
                /\ i' = 0
                /\ psd_status' = Unbound
           ELSE /\ pc' = "solve"
                /\ raised' = "none"
                /\ n' = n
                /\ i' = i + 1
                /\ psd_status' = status1
        /\ UNCHANGED <<pmins, nodes, spec_nodes, sym_nodes, trials, tmpfiles,
                       singular_out, op, handler_failed, returned, consecutive_ranks>>

\* line 180: self.trials += n
TrialsAfter_calls(t, k) == t + 1
TrialsAfter(t, k) == t + k

\* solve(n): after the loop, self.trials += n
EndSolve ==
    /\ pc = "solve"
    /\ i = n
    /\ trials' = TrialsAfter(trials, n)
    /\ pc' = "idle"
    /\ n' = 0
    /\ i' = 0
    /\ psd_status' = Unbound
    /\ UNCHANGED <<mins, pmins, nodes, spec_nodes, sym_nodes, psd_spec, nsd_spec,
                   fully_bounded_directions, fully_unbounded_directions,
                   tmpfiles, singular_out, observed>>

\* ------------------------------------- get_nodes, process, gen_nodes, report
\* does the operation call the handler from this state
ProcessCallsHandler(s) == NoNodesKnown(s)
GenNodesCallsHandler(s) == NeedsProcess(s) /\ ProcessCallsHandler(s)
PrintCallsHandler(s) == s.nodes = <<>> /\ GenNodesCallsHandler(s)

\* the effect of an operation with result r = <<exception, self afterwards>>
\* that called the handler (call h) or did not
Effect(name, r, calls, h) ==
    /\ pc = "idle"
    /\ mins' = r[2].mins
    /\ pmins' = r[2].pmins
    /\ nodes' = r[2].nodes
    /\ spec_nodes' = r[2].spec_nodes
    /\ sym_nodes' = r[2].sym_nodes
    /\ tmpfiles' = IF calls THEN h.files ELSE tmpfiles
    /\ op' = name
    /\ raised' = r[1]
    /\ handler_failed' = (calls /\ ~h.ok)
    /\ returned' = IF calls THEN returned + Len(h.pts) ELSE returned
    /\ consecutive_ranks' =
          IF name = "gen_nodes" /\ r[1] = "none"
          THEN (IF consecutive_ranks = 0 THEN 1 ELSE 2)
          ELSE 0
    /\ UNCHANGED <<trials, psd_spec, nsd_spec, fully_bounded_directions,
                   fully_unbounded_directions, singular_out, locals,
                   issued, psd_reissued, nsd_reissued,
                   psd_infeasible_seen, nsd_infeasible_seen>>

\* the points of the known nodes
KnownPoints ==
    {spec_nodes[k][1] : k \in 1..Len(spec_nodes)}
    \cup {sym_nodes[k][1] : k \in 1..Len(sym_nodes)}

\* get_nodes(handler); the handler returns no point that is known already
GetNodes(h) ==
    /\ Len(spec_nodes) + Len(sym_nodes) + Len(h.pts) <= MaxNodes
    /\ \A k \in 1..Len(h.pts) : h.pts[k] \notin KnownPoints
    /\ Effect("get_nodes", get_nodes(self, h), TRUE, h)

Process(tolerance) ==
    \E h \in CallsIf(ProcessCallsHandler(self)) :
        Effect("process", process(self, tolerance, h), ProcessCallsHandler(self), h)

GenNodes ==
    \E h \in CallsIf(GenNodesCallsHandler(self)) :
        Effect("gen_nodes", gen_nodes(self, h), GenNodesCallsHandler(self), h)

PrintResults ==
    \E h \in CallsIf(PrintCallsHandler(self)) :
        Effect("print_results", print_results(self, h), PrintCallsHandler(self), h)

\* ---------------------------------------------------------- specification
SingularOutputs == {<<>>, <<P_neg, P_zero>>}

Init ==
    /\ mins = <<>>
    /\ pmins = <<>>
    /\ nodes = <<>>
    /\ spec_nodes = <<>>
    /\ sym_nodes = <<>>
    /\ trials = 0
    /\ psd_spec = TRUE
    /\ nsd_spec = TRUE
    /\ fully_bounded_directions = 0
    /\ fully_unbounded_directions = 0
    /\ tmpfiles = {}
    /\ singular_out \in SingularOutputs
    /\ pc = "idle"
    /\ n = 0
    /\ i = 0
    /\ psd_status = Unbound
    /\ op = "init"
    /\ raised = "none"
    /\ handler_failed = FALSE
    /\ returned = 0
    /\ issued = 0
    /\ psd_reissued = FALSE
    /\ nsd_reissued = FALSE
    /\ psd_infeasible_seen = FALSE
    /\ nsd_infeasible_seen = FALSE
    /\ consecutive_ranks = 0

Next ==
    \/ \E k \in 0..MaxN : StartSolve(k)
    \/ \E ps \in OutcomesIf(pc = "solve" /\ IssuePsd(psd_spec)),
          ns \in OutcomesIf(pc = "solve" /\ IssueNsd(nsd_spec)) : SolveTrial(ps, ns)
    \/ EndSolve
    \/ \E h \in HandlerCalls \cup DefaultHandlerCalls : GetNodes(h)
    \/ \E tolerance \in Tolerances : Process(tolerance)
    \/ GenNodes
    \/ PrintResults

Spec == Init /\ [][Next]_vars

\* ------------------------------------------- specification of the sampler
\* solve alone: no other operation reads or writes the latches, the two
\* counters, the trial counter or the locals of solve.  A call is entered
\* while the trials are within MaxSampleTrials and the sub-problems it can
\* issue are within twice that.
MaxSampleTrials == MaxTrials + 1
StartSample(k) ==
    /\ trials + k <= MaxSampleTrials
    /\ issued + k * ((IF psd_spec THEN 1 ELSE 0) + (IF nsd_spec THEN 1 ELSE 0))
           <= 2 * MaxSampleTrials
    /\ BeginSolve(k)

NextSample ==
    \/ \E k \in 0..MaxN : StartSample(k)
    \/ \E ps \in OutcomesIf(pc = "solve" /\ IssuePsd(psd_spec)),
          ns \in OutcomesIf(pc = "solve" /\ IssueNsd(nsd_spec)) : SolveTrial(ps, ns)
    \/ EndSolve

SampleSpec == Init /\ [][NextSample]_vars

\* ------------------------------------------ specification of the matching
\* solve, then process with the nodes found by singular.  The solver also
\* returns P_edge and process is also called with tolerance 1: with the nodes
\* P_neg and P_zero in pmins, maxdelta is then |P_neg| = sqrt(29), P_edge lies
\* at exactly that distance from P_zero and within it of P_neg.
P_edge == <<0, -3, -2>>
MatchTolerances == {DefaultTolerance, <<1, 1>>}
MatchOutcomes ==
    {[status |-> SOLVED, value |-> p] : p \in {P_zero, P_edge}}
    \cup {[status |-> st, value |-> <<>>] : st \in {INFEASIBLE, UNKNOWN}}
MatchOutcomesIf(issue) == IF issue THEN MatchOutcomes ELSE {NotIssued}

NextMatch ==
    \/ \E k \in 0..MaxN : StartSolve(k)
    \/ \E ps \in MatchOutcomesIf(pc = "solve" /\ IssuePsd(psd_spec)),
          ns \in MatchOutcomesIf(pc = "solve" /\ IssueNsd(nsd_spec)) : SolveTrial(ps, ns)
    \/ EndSolve
    \/ \E tolerance \in MatchTolerances : Process(tolerance)

MatchSpec == Init /\ [][NextMatch]_vars


\* ------------------------------------------------------------------ claims

\* C1: once psd_spec is false it is false in every later state, and likewise
\* nsd_spec: no step of any operation sets either latch back to true.
LatchesMonotone ==
    [][(~psd_spec => ~psd_spec') /\ (~nsd_spec => ~nsd_spec')]_vars
\* a trial has run in a solve call that began with the PSD latch false
LatchStaysFalseWitness ==
    ~psd_spec /\ pc = "solve" /\ i > 0 /\ psd_status = Unbound

SolveAddsN ==
    [][(pc = "solve" /\ pc' = "idle") => trials' = trials + n]_vars

\* C4: with a trial counter T > 0 no occurrence count exceeds T, so that every
\* probability of the ranking lies in [0, 1].
ProbabilityAtMostOne ==
    (pc = "idle" /\ trials > 0) =>
        /\ \A k \in 1..Len(pmins) : pmins[k][2] >= 0 /\ pmins[k][2] <= trials
        /\ \A k \in 1..Len(nodes) :
              nodes[k][2][1] >= 0 /\ nodes[k][2][1] <= nodes[k][2][2]

\* C5: when process has completed, pmins holds exactly one entry, with its
\* point and eigenvalues, for each spectrahedral node known.
PminsCoversSpecNodes ==
    (op = "process" /\ raised = "none") =>
        /\ Len(pmins) = Len(spec_nodes)
        /\ \A k \in 1..Len(pmins) :
              pmins[k][1] = spec_nodes[k][1] /\ pmins[k][3] = spec_nodes[k][2]

\* C6: with the trial counter 0, gen_nodes ends without a division error and
\* every entry of the ranking has probability 0.
ZeroTrialsRanking ==
    (op = "gen_nodes" /\ trials = 0) =>
        /\ raised # "ZeroDivisionError"
        /\ raised = "none" =>
              /\ Len(nodes) = Len(pmins)
              /\ \A k \in 1..Len(nodes) : nodes[k][2] = <<0, 1>>
ZeroTrialsRankingWitness ==
    op = "gen_nodes" /\ raised = "none" /\ trials = 0 /\ Len(nodes) = 2

\* C7: a gen_nodes call that directly follows a completed gen_nodes call leaves
\* self.nodes, the ranking, as it was, and changes no occurrence count.
RankIdempotent ==
    [][(op = "gen_nodes" /\ raised = "none" /\ op' = "gen_nodes" /\ raised' = "none")
        => (nodes' = nodes /\ pmins' = pmins)]_vars
\* gen_nodes was called twice in a row, with minima matched by the first call
RankTwiceWitness ==
    /\ consecutive_ranks = 2
    /\ trials > 0
    /\ \E k \in 1..Len(nodes) : nodes[k][2][1] > 0

\* C8: every point a handler returned to get_nodes is in exactly one of
\* spec_nodes and sym_nodes, in spec_nodes if and only if its first three
\* eigenvalues are all >= 0 or all <= 0.
ClassificationExact ==
    LET same_sign(e) == \/ \A j \in 1..3 : e[j] >= 0
                        \/ \A j \in 1..3 : e[j] <= 0
    IN  /\ Len(spec_nodes) + Len(sym_nodes) = returned
        /\ \A k \in 1..Len(spec_nodes) : same_sign(spec_nodes[k][2])
        /\ \A k \in 1..Len(sym_nodes) : ~same_sign(sym_nodes[k][2])
        /\ \A k \in 1..Len(spec_nodes) : \A l \in 1..Len(sym_nodes) :
              spec_nodes[k][1] # sym_nodes[l][1]
\* two points were returned, one went to each set
ClassifiedWitness ==
    Len(spec_nodes) = 1 /\ Len(sym_nodes) = 1 /\ returned = 2

\* C9: when the handler raises, the operation that called it (get_nodes, or
\* process, gen_nodes, print_results through the lazy discovery) ends with that
\* error and spec_nodes and sym_nodes are as before.
HandlerFailurePropagates ==
    [][handler_failed' =>
          /\ raised' = "HandlerError"
          /\ spec_nodes' = spec_nodes
          /\ sym_nodes' = sym_nodes]_vars
HandlerFailedLazilyWitness ==
    handler_failed /\ op = "gen_nodes" /\ raised = "HandlerError"

\* C10: the file staged for singular is gone once the default handler has
\* finished, whether the run of singular succeeded or failed.
TmpFileRemoved == tmpfiles = {}

BufferClearedAfterProcess ==
    (op = "process" /\ raised = "none") => mins = <<>>
\* process has completed with pmins empty, after one trial in which both
\* sub-problems were solved, so that two minima had been sampled
ClearedWithoutNodesWitness ==
    /\ op = "process" /\ raised = "none"
    /\ pmins = <<>> /\ mins = <<>>
    /\ trials = 1 /\ fully_bounded_directions = 1

BoundedCountsBothSolved ==
    [][\A ps \in OutcomesIf(IssuePsd(psd_spec)), ns \in OutcomesIf(IssueNsd(nsd_spec)) :
          SolveTrial(ps, ns) =>
              fully_bounded_directions' =
                  fully_bounded_directions
                      + (IF ps.status = SOLVED /\ ns.status = SOLVED THEN 1 ELSE 0)
    ]_vars
\* a call of two trials: the PSD sub-problem was infeasible in the first and
\* skipped in the second, the NSD sub-problem solved in both; the PSD status
\* left over in the second trial did not count
StalePsdStatusWitness ==
    /\ pc = "solve" /\ n = 2 /\ i = 2 /\ ~psd_spec /\ psd_status = INFEASIBLE
    /\ Len(mins) = 2 /\ fully_bounded_directions = 0

\* C15: a trial adds 1 to fully_unbounded_directions if the PSD and the NSD
\* sub-problem were both issued in it and both reported unbounded, and leaves
\* the counter unchanged otherwise.
UnboundedCountsBothUnbounded ==
    [][\A ps \in OutcomesIf(IssuePsd(psd_spec)), ns \in OutcomesIf(IssueNsd(nsd_spec)) :
          SolveTrial(ps, ns) =>
              fully_unbounded_directions' =
                  fully_unbounded_directions
                      + (IF ps.status = UNBOUNDED /\ ns.status = UNBOUNDED THEN 1 ELSE 0)
    ]_vars
\* two trials with both sub-problems issued in each (four in all, no latch
\* cleared, nothing solved): one trial was counted, the other was not
OneOfTwoTrialsUnboundedWitness ==
    /\ pc = "idle" /\ trials = 2 /\ issued = 4 /\ psd_spec /\ nsd_spec
    /\ mins = <<>> /\ fully_unbounded_directions = 1

\* C16: a sub-problem that reports a status other than solved, infeasible and
\* unbounded changes no latch, no counter and not self.mins, and the call it
\* was reported in runs its remaining trials and ends normally.
\* (Inside a call, psd_status unbound and nsd_spec true after a first trial
\* mean that the PSD sub-problem was skipped and the NSD sub-problem reported
\* such a status in every trial so far: solved or unbounded would have raised,
\* infeasible would have cleared the latch.)
UnknownStatusSkipped ==
    [][/\ \A ps \in OutcomesIf(IssuePsd(psd_spec)), ns \in OutcomesIf(IssueNsd(nsd_spec)) :
            (SolveTrial(ps, ns) /\ (ps.status = UNKNOWN \/ ns.status = UNKNOWN)) =>
                /\ ps.status = UNKNOWN => psd_spec' = psd_spec
                /\ ns.status = UNKNOWN => nsd_spec' = nsd_spec
                /\ fully_bounded_directions' = fully_bounded_directions
                /\ fully_unbounded_directions' = fully_unbounded_directions
                /\ mins' = (IF ps.status = SOLVED THEN Append(mins, ps.value)
                            ELSE IF ns.status = SOLVED THEN Append(mins, ns.value)
                            ELSE mins)
                /\ pc' = "solve" /\ i' = i + 1
       /\ (pc = "solve" /\ i >= 1 /\ psd_status = Unbound /\ nsd_spec) =>
              raised' = "none"
    ]_vars

\* C17: every entry of spec_nodes, and so every entry of pmins, has all Dim
\* eigenvalues of its signature >= 0 or all of them <= 0.
SpectrahedralAllSameSign ==
    LET all_same_sign(e) == \/ \A j \in 1..Len(e) : e[j] >= 0
                            \/ \A j \in 1..Len(e) : e[j] <= 0
    IN  /\ \A k \in 1..Len(spec_nodes) :
              Len(spec_nodes[k][2]) = Dim /\ all_same_sign(spec_nodes[k][2])
        /\ \A k \in 1..Len(pmins) :
              Len(pmins[k][3]) = Dim /\ all_same_sign(pmins[k][3])

\* C18: when print_results has completed, no sampled minimum is left unmatched
\* and self.nodes, which it prints, holds every entry of pmins with its current
\* count divided by the current trial counter (0 if the counter is 0).
ReportIsFresh ==
    (op = "print_results" /\ raised = "none") =>
        LET shown(k, l) ==
                /\ nodes[l][1] = pmins[k][1]
                /\ IF trials = 0 THEN nodes[l][2] = <<0, 1>>
                   ELSE nodes[l][2][1] * trials = pmins[k][2] * nodes[l][2][2]
        IN  /\ mins = <<>>
            /\ Len(nodes) = Len(pmins)
            /\ \A k \in 1..Len(pmins) : \E l \in 1..Len(nodes) : shown(k, l)

\* C19: no occurrence count ever decreases and no entry of pmins is dropped
\* or replaced, and each minimum is counted at most once for an entry: a count
\* is at most the number of sub-problems issued so far, less the minima still
\* in the buffer.
SingleCounting ==
    [][/\ Len(pmins') >= Len(pmins)
       /\ \A k \in 1..Len(pmins) :
             /\ pmins'[k][1] = pmins[k][1]
             /\ pmins'[k][2] >= pmins[k][2]
       /\ \A k \in 1..Len(pmins') : pmins'[k][2] + Len(mins') <= issued'
    ]_vars
\* a minimum has been counted by one pass, and a solve call after that pass
\* has put another one into the buffer for the next pass
SecondPassPendingWitness ==
    /\ pc = "idle" /\ op = "solve" /\ raised = "none" /\ trials = 2
    /\ Len(pmins) = 2 /\ pmins[2][2] = 1 /\ mins = <<P_zero>>

\* C20: between solve calls fully_bounded_directions +
\* fully_unbounded_directions is at most the trial counter, so that the two
\* fractions print_results shows lie in [0, 1].
CountersWithinTrials ==
    pc = "idle" =>
        /\ fully_bounded_directions >= 0 /\ fully_unbounded_directions >= 0
        /\ fully_bounded_directions + fully_unbounded_directions <= trials
\* two trials, one counted as fully bounded and one as fully unbounded
CountersReachTrialsWitness ==
    /\ pc = "idle" /\ trials = 2
    /\ fully_bounded_directions = 1 /\ fully_unbounded_directions = 1

====
